---- MODULE Spec2Model ----
(***************************************************************************)
(* PhoneticHybrid: the pronunciation analysis engine (backend/inference.py *)
(* as documented by the repository) as a state machine.                    *)
(*                                                                         *)
(* Real-valued quantities (scores, confidences, times) are exact rationals *)
(* <<numerator, denominator>> with a positive denominator, so that the     *)
(* thresholds and the weighted sums are compared without rounding.         *)
(* Formants are in units of 100 Hz.  IPA symbols are written in ASCII:     *)
(* "dZ" for the affricate of "pencere", "r" for the tap, "'E" for the      *)
(* stress-marked open e that eSpeak-NG emits.                              *)
(*                                                                         *)
(* The browser application (frontend/src: App, ConsentForm,                *)
(* OrthodonticSurvey, PronunciationTest, PhonemePreview, ReviewPage) is    *)
(* modelled by the variables app, consent, survey, test, preview, review.  *)
(* Text fields are sequences of characters.  A request or a timer started  *)
(* by a component outlives the component: unmounting resets the            *)
(* component's state and leaves the request or the timer pending.          *)
(***************************************************************************)
EXTENDS Integers, Sequences, FiniteSets, TLC

VARIABLES req, whisper, probe,
          app, consent, survey, test, preview, review

\* The state of the browser application (frontend/src).
frontend == <<app, consent, survey, test, preview, review>>

vars == <<req, whisper, probe, app, consent, survey, test, preview, review>>

NULL == "null"

(***************************************************************************)
(* Exact rational arithmetic.                                              *)
(***************************************************************************)
Abs(x) == IF x < 0 THEN -x ELSE x

RECURSIVE GCD(_, _)
GCD(a, b) == IF b = 0 THEN a ELSE GCD(b, a % b)

\* Each operator binds its arguments once (p ranges over a singleton), so
\* that an argument is evaluated a single time however often it is used.
RNorm(n, d) ==
  CHOOSE q \in {IF p[1] = 0 THEN <<0, 1>>
                ELSE <<p[1] \div GCD(Abs(p[1]), p[2]),
                       p[2] \div GCD(Abs(p[1]), p[2])>> : p \in {<<n, d>>}} :
    TRUE

RAdd(x, y) ==
  CHOOSE q \in {RNorm(p[1][1] * p[2][2] + p[2][1] * p[1][2],
                      p[1][2] * p[2][2]) : p \in {<<x, y>>}} : TRUE
RSub(x, y) ==
  CHOOSE q \in {RNorm(p[1][1] * p[2][2] - p[2][1] * p[1][2],
                      p[1][2] * p[2][2]) : p \in {<<x, y>>}} : TRUE
RMul(x, y) ==
  CHOOSE q \in {RNorm(p[1][1] * p[2][1], p[1][2] * p[2][2]) :
                  p \in {<<x, y>>}} : TRUE
RDivInt(x, k) ==
  CHOOSE q \in {RNorm(p[1][1], p[1][2] * p[2]) : p \in {<<x, k>>}} : TRUE
RLe(x, y) == \E p \in {<<x, y>>} : p[1][1] * p[2][2] <= p[2][1] * p[1][2]
RLt(x, y) == \E p \in {<<x, y>>} : p[1][1] * p[2][2] < p[2][1] * p[1][2]
RGe(x, y) == RLe(y, x)
RMin(x, y) ==
  CHOOSE q \in {IF RLe(p[1], p[2]) THEN p[1] ELSE p[2] : p \in {<<x, y>>}} :
    TRUE
RMax(x, y) ==
  CHOOSE q \in {IF RLe(p[1], p[2]) THEN p[2] ELSE p[1] : p \in {<<x, y>>}} :
    TRUE

Zero == <<0, 1>>
One == <<1, 1>>
InUnit(x) == RLe(Zero, x) /\ RLe(x, One)

(***************************************************************************)
(* ScoreAggregator: the grading scale.                                     *)
(***************************************************************************)
GradeA == <<9, 10>>
GradeB == <<8, 10>>
GradeC == <<7, 10>>
GradeD == <<6, 10>>

GradeExclusive(overall) ==
  IF RLt(GradeA, overall) THEN "A"
  ELSE IF RLt(GradeB, overall) THEN "B"
  ELSE IF RLt(GradeC, overall) THEN "C"
  ELSE IF RLt(GradeD, overall) THEN "D"
  ELSE "F"

Grade(overall) ==
  IF RGe(overall, GradeA) THEN "A"
  ELSE IF RGe(overall, GradeB) THEN "B"
  ELSE IF RGe(overall, GradeC) THEN "C"
  ELSE IF RGe(overall, GradeD) THEN "D"
  ELSE "F"

Grades == {"A", "B", "C", "D", "F"}

(***************************************************************************)
(* External collaborators: the phoneme transcriber (Phonemizer with the    *)
(* eSpeak-NG Turkish backend) and the recordings offered to the engine.    *)
(***************************************************************************)
Requests == {"r1", "r2"}

\* "pencere" and "merhaba" are transcribed as the repository documents them;
\* "el" stands for a word whose symbols are all outside the scorer's tables
\* and "-" for a word the transcriber returns no phoneme for.
Words == {"pencere", "merhaba", "el", "-"}

Phonemize(w) ==
  CASE w = "pencere" -> <<"p", "e", "n", "dZ", "e", "r", "e">>
    [] w = "merhaba" -> <<"m", "'E", "r", "h", "a", "b", "a">>
    [] w = "el" -> <<"'E", "l">>
    [] OTHER -> <<>>

\* A waveform is described by what the signal contains: its length in
\* ticks, its RMS energy and peak RMS, the resonances of the vocal tract,
\* the spectral centroid and the share (percent) of energy in the low band.
Waveforms ==
  { [kind |-> "silence", ticks |-> 9, rms |-> 0, peak |-> 0,
     f1 |-> 0, f2 |-> 0, centroid |-> 0, lowband |-> 0],
    [kind |-> "clear", ticks |-> 15, rms |-> 10, peak |-> 30,
     f1 |-> 5, f2 |-> 20, centroid |-> 35, lowband |-> 70],
    [kind |-> "mumbled", ticks |-> 10, rms |-> 10, peak |-> 12,
     f1 |-> 8, f2 |-> 16, centroid |-> 10, lowband |-> 30],
    [kind |-> "malformed", ticks |-> 0, rms |-> 0, peak |-> 0,
     f1 |-> 0, f2 |-> 0, centroid |-> 0, lowband |-> 0] }

\* What the recognizer returns when it is reachable.
RecognizerConfidences == {<<0, 1>>, <<91, 100>>, <<1, 1>>}

(***************************************************************************)
(* FeatureExtractor.                                                       *)
(***************************************************************************)
SilenceEps == 1

\* The upload of another request being handled leaks into this one.
extractShared(waveform) ==
  LET others == {q \in Requests :
                   /\ req[q].stage \in {"Received", "Transcribed", "Recognized"}
                   /\ req[q].waveform # waveform
                   /\ req[q].waveform.rms >= SilenceEps}
      w == IF others = {} THEN waveform
           ELSE req[CHOOSE q \in others : TRUE].waveform
  IN [duration |-> w.ticks, F1 |-> w.f1, F2 |-> w.f2, rms |-> w.rms,
      peak |-> w.peak, centroid |-> w.centroid, lowband |-> w.lowband]

extract(waveform) ==
  IF waveform.rms < SilenceEps
  THEN [duration |-> waveform.ticks, F1 |-> 0, F2 |-> 0, rms |-> 0,
        peak |-> 0, centroid |-> 0, lowband |-> 0]
  ELSE [duration |-> waveform.ticks, F1 |-> waveform.f1, F2 |-> waveform.f2,
        rms |-> waveform.rms, peak |-> waveform.peak,
        centroid |-> waveform.centroid, lowband |-> waveform.lowband]

(***************************************************************************)
(* PhonemeSegmenter: equal-duration split.  A time is the rational         *)
(* <<numerator, denominator>> in ticks.                                    *)
(***************************************************************************)
segmentWholeTicks(phoneme_sequence, total_duration) ==
  LET n == Len(phoneme_sequence)
      width == total_duration \div n
  IN [i \in 1..n |->
        [phoneme |-> phoneme_sequence[i],
         start |-> RNorm((i - 1) * width, 1),
         end |-> RNorm(i * width, 1)]]

segment(phoneme_sequence, total_duration) ==
  LET n == Len(phoneme_sequence) IN
  [i \in 1..n |->
     [phoneme |-> phoneme_sequence[i],
      start |-> RNorm((i - 1) * total_duration, n),
      end |-> RNorm(i * total_duration, n)]]

(***************************************************************************)
(* PhonemeScorer.                                                          *)
(***************************************************************************)
Plosives == {"p", "t", "k", "b", "d", "g"}
Fricatives == {"f", "s", "S", "v", "z", "Z", "h"}
Nasals == {"m", "n"}

\* Canonical Turkish vowel targets <<F1, F2>> in units of 100 Hz.
VowelFormants == [a |-> <<8, 12>>, e |-> <<5, 20>>, i |-> <<3, 24>>,
                  o |-> <<5, 10>>, u |-> <<3, 8>>]
Vowels == DOMAIN VowelFormants

NeutralDefault == <<3, 4>>
LowDefault == <<1, 5>>
ConsonantHigh == <<9, 10>>
ConsonantLow == <<6, 10>>
BurstRatio == 2
FricativeCentroid == 30
NasalLowBand == 60

RelError(actual, expected) == <<Abs(actual - expected), expected>>

FormantScoreSigned(phoneme, F1, F2) ==
  LET expected == VowelFormants[phoneme]
      f1_error == <<F1 - expected[1], expected[1]>>
      f2_error == <<F2 - expected[2], expected[2]>>
  IN RSub(One, RMin(One, RDivInt(RAdd(f1_error, f2_error), 2)))

\* score = 1.0 - min(1.0, (f1_error + f2_error) / 2)
FormantScore(phoneme, F1, F2) ==
  LET expected == VowelFormants[phoneme]
      f1_error == RelError(F1, expected[1])
      f2_error == RelError(F2, expected[2])
  IN RSub(One, RMin(One, RDivInt(RAdd(f1_error, f2_error), 2)))

score(phoneme, features) ==
  IF phoneme \in Vowels
  THEN IF features.F1 = 0 \/ features.F2 = 0 THEN LowDefault
       ELSE FormantScore(phoneme, features.F1, features.F2)
  ELSE IF phoneme \in Plosives
  THEN IF features.rms = 0 THEN LowDefault
       ELSE IF features.peak >= BurstRatio * features.rms THEN ConsonantHigh
       ELSE ConsonantLow
  ELSE IF phoneme \in Fricatives
  THEN IF features.centroid = 0 THEN LowDefault
       ELSE IF features.centroid >= FricativeCentroid THEN ConsonantHigh
       ELSE ConsonantLow
  ELSE IF phoneme \in Nasals
  THEN IF features.rms = 0 THEN LowDefault
       ELSE IF features.lowband >= NasalLowBand THEN ConsonantHigh
       ELSE ConsonantLow
  ELSE NeutralDefault

scoreDistinct(segments, features) ==
  LET symbols == {segments[i].phoneme : i \in DOMAIN segments}
      order == CHOOSE f \in [1..Cardinality(symbols) -> symbols] :
                 \A s \in symbols : \E i \in DOMAIN f : f[i] = s
  IN [i \in 1..Cardinality(symbols) |-> score(order[i], features)]

scoreAll(segments, features) ==
  [i \in DOMAIN segments |-> score(segments[i].phoneme, features)]

(***************************************************************************)
(* ScoreAggregator.                                                        *)
(***************************************************************************)
RECURSIVE RSum(_)
RSum(scores) ==
  IF scores = <<>> THEN Zero ELSE RAdd(scores[1], RSum(Tail(scores)))

RECURSIVE RMinimum(_)
RMinimum(scores) ==
  IF Len(scores) = 1 THEN scores[1]
  ELSE RMin(scores[1], RMinimum(Tail(scores)))

mean(scores) == RDivInt(RSum(scores), Len(scores))

RECURSIVE RMaximum(_)
RMaximum(scores) ==
  IF Len(scores) = 1 THEN scores[1]
  ELSE RMax(scores[1], RMaximum(Tail(scores)))

calculate_overall_score_best(phoneme_scores) ==
  RAdd(RMul(<<7, 10>>, mean(phoneme_scores)),
       RMul(<<3, 10>>, RMaximum(phoneme_scores)))

\* overall = 0.7 * mean(phoneme_scores) + 0.3 * min(phoneme_scores)
calculate_overall_score(phoneme_scores) ==
  RAdd(RMul(<<7, 10>>, mean(phoneme_scores)),
       RMul(<<3, 10>>, RMinimum(phoneme_scores)))

\* Global acoustic quality of the utterance, used when there is no phoneme
\* to score.
RmsFull == 10
GlobalQuality(features) ==
  IF features.rms >= RmsFull THEN One ELSE <<features.rms, RmsFull>>

NoConfidence == <<>>

blendUnweighted(recognition_confidence, acoustic) ==
  IF recognition_confidence = NoConfidence THEN acoustic
  ELSE RAdd(recognition_confidence, RMul(<<6, 10>>, acoustic))

blendNullAsZero(recognition_confidence, acoustic) ==
  RAdd(RMul(<<4, 10>>, IF recognition_confidence = NoConfidence THEN Zero
                       ELSE recognition_confidence),
       RMul(<<6, 10>>, acoustic))

\* 40% recognition confidence + 60% acoustic score
blend(recognition_confidence, acoustic) ==
  IF recognition_confidence = NoConfidence THEN acoustic
  ELSE RAdd(RMul(<<4, 10>>, recognition_confidence),
            RMul(<<6, 10>>, acoustic))

aggregateSumOfNone(segment_scores, recognition_confidence, features) ==
  LET acoustic == IF segment_scores = <<>> THEN RSum(segment_scores)
                  ELSE calculate_overall_score(segment_scores)
      overall == blend(recognition_confidence, acoustic)
  IN [overall |-> overall, grade |-> Grade(overall)]

aggregate(segment_scores, recognition_confidence, features) ==
  LET acoustic == IF segment_scores = <<>> THEN GlobalQuality(features)
                  ELSE calculate_overall_score(segment_scores)
      overall == blend(recognition_confidence, acoustic)
  IN [overall |-> overall, grade |-> Grade(overall)]

(***************************************************************************)
(* AnalysisOrchestrator: analyze(waveform, word), one step per stage, for  *)
(* the requests the server handles at the same time.                       *)
(***************************************************************************)
NoFeatures == [duration |-> 0, F1 |-> 0, F2 |-> 0, rms |-> 0, peak |-> 0,
               centroid |-> 0, lowband |-> 0]
NoWaveform == [kind |-> "none", ticks |-> 0, rms |-> 0, peak |-> 0,
               f1 |-> 0, f2 |-> 0, centroid |-> 0, lowband |-> 0]
Absent == <<>>

IdleReq ==
  [stage |-> "Idle", word |-> "", waveform |-> NoWaveform,
   phonemizer |-> "pending", recognizer |-> "pending", model |-> "unloaded",
   phonemes_target |-> <<>>, recognized_text |-> NULL,
   recognition_confidence |-> NoConfidence, features |-> NoFeatures,
   segments |-> <<>>, scores |-> <<>>, segment_scores |-> <<>>,
   overall |-> Absent, grade |-> "", analysis_method |-> "", error |-> ""]

ScoreMapFirst(segments, scores) ==
  [s \in {segments[i].phoneme : i \in DOMAIN segments} |->
     LET first == CHOOSE i \in DOMAIN segments :
                    /\ segments[i].phoneme = s
                    /\ \A j \in DOMAIN segments :
                         segments[j].phoneme = s => i <= j
     IN scores[first]]

\* The symbol-keyed map of the response: a later score of a symbol
\* overwrites an earlier one.
ScoreMap(segments, scores) ==
  [s \in {segments[i].phoneme : i \in DOMAIN segments} |->
     LET last == CHOOSE i \in DOMAIN segments :
                   /\ segments[i].phoneme = s
                   /\ \A j \in DOMAIN segments :
                        segments[j].phoneme = s => j <= i
     IN scores[last]]

Receive(r) ==
  /\ req[r].stage = "Idle"
  /\ \E word \in Words, waveform \in Waveforms :
       req' = [req EXCEPT ![r] = [IdleReq EXCEPT !.stage = "Received",
                                                 !.word = word,
                                                 !.waveform = waveform]]
  /\ UNCHANGED <<whisper, probe, frontend>>

TranscribeDegrading(r) ==
  /\ req[r].stage = "Received"
  /\ \/ req' = [req EXCEPT ![r].phonemizer = "unavailable",
                           ![r].stage = "Transcribed"]
     \/ req' = [req EXCEPT ![r].phonemizer = "ok",
                           ![r].phonemes_target = Phonemize(req[r].word),
                           ![r].stage = "Transcribed"]
  /\ UNCHANGED <<whisper, probe, frontend>>

Transcribe(r) ==
  /\ req[r].stage = "Received"
  /\ \/ req' = [req EXCEPT ![r].phonemizer = "unavailable",
                           ![r].error = "PhonemizerUnavailable",
                           ![r].stage = "Failed"]
     \/ req' = [req EXCEPT ![r].phonemizer = "ok",
                           ![r].phonemes_target = Phonemize(req[r].word),
                           ![r].stage = "Transcribed"]
  /\ UNCHANGED <<whisper, probe, frontend>>

\* model = whisper.load_model("base"), called by the request: the model
\* files are fetched when they are not in the cache yet.
LoadModel(r) ==
  /\ req[r].stage = "Transcribed"
  /\ req[r].model = "unloaded"
  /\ req' = [req EXCEPT ![r].model =
               IF whisper.cached THEN "loaded" ELSE "downloading"]
  /\ UNCHANGED <<whisper, probe, frontend>>

DownloadModel(r) ==
  /\ req[r].stage = "Transcribed"
  /\ req[r].model = "downloading"
  /\ whisper' = [cached |-> TRUE, downloads |-> whisper.downloads + 1]
  /\ req' = [req EXCEPT ![r].model = "loaded"]
  /\ UNCHANGED <<probe, frontend>>

Recognize(r) ==
  /\ req[r].stage = "Transcribed"
  /\ req[r].model = "loaded"
  /\ \E confidence \in RecognizerConfidences :
       req' = [req EXCEPT
                 ![r].recognizer = "ok",
                 ![r].recognized_text =
                    IF confidence = Zero THEN "" ELSE req[r].word,
                 ![r].recognition_confidence = confidence,
                 ![r].analysis_method = "whisper_hybrid",
                 ![r].stage = "Recognized"]
  /\ UNCHANGED <<whisper, probe, frontend>>

RecognizerDownFatal(r) ==
  /\ req[r].stage = "Transcribed"
  /\ req' = [req EXCEPT ![r].recognizer = "unavailable",
                        ![r].error = "RecognizerUnavailable",
                        ![r].stage = "Failed"]
  /\ UNCHANGED <<whisper, probe, frontend>>

RecognizerDownRetrying(r) ==
  /\ req[r].stage = "Transcribed"
  /\ req[r].recognizer = "pending"
  /\ req' = [req EXCEPT ![r].recognizer = "unavailable"]
  /\ UNCHANGED <<whisper, probe, frontend>>

RecognizerDown(r) ==
  /\ req[r].stage = "Transcribed"
  /\ req' = [req EXCEPT ![r].recognizer = "unavailable",
                        ![r].recognized_text = NULL,
                        ![r].recognition_confidence = NoConfidence,
                        ![r].analysis_method = "acoustic_only",
                        ![r].stage = "Recognized"]
  /\ UNCHANGED <<whisper, probe, frontend>>

ExtractFeatures(r) ==
  /\ req[r].stage = "Recognized"
  /\ IF req[r].waveform.kind = "malformed"
     THEN req' = [req EXCEPT ![r].error = "MalformedAudio",
                             ![r].stage = "Failed"]
     ELSE req' = [req EXCEPT ![r].features = extract(req[r].waveform),
                             ![r].stage = "FeaturesExtracted"]
  /\ UNCHANGED <<whisper, probe, frontend>>

SegmentStep(r) ==
  /\ req[r].stage = "FeaturesExtracted"
  /\ req' = [req EXCEPT
               ![r].segments = segment(req[r].phonemes_target,
                                       req[r].features.duration),
               ![r].stage = "Segmented"]
  /\ UNCHANGED <<whisper, probe, frontend>>

ScoreStep(r) ==
  /\ req[r].stage = "Segmented"
  /\ req' = [req EXCEPT
               ![r].scores = scoreAll(req[r].segments, req[r].features),
               ![r].stage = "Scored"]
  /\ UNCHANGED <<whisper, probe, frontend>>

AggregateStep(r) ==
  /\ req[r].stage = "Scored"
  /\ LET result == aggregate(req[r].scores, req[r].recognition_confidence,
                             req[r].features)
     IN req' = [req EXCEPT ![r].overall = result.overall,
                           ![r].grade = result.grade,
                           ![r].stage = "Aggregated"]
  /\ UNCHANGED <<whisper, probe, frontend>>

Finish(r) ==
  /\ req[r].stage = "Aggregated"
  /\ req' = [req EXCEPT
               ![r].segment_scores = ScoreMap(req[r].segments, req[r].scores),
               ![r].stage = "Done"]
  /\ UNCHANGED <<whisper, probe, frontend>>

\* The response (result or error) has been delivered.
Return(r) ==
  /\ req[r].stage \in {"Done", "Failed"}
  /\ req' = [req EXCEPT ![r] = IdleReq]
  /\ UNCHANGED <<whisper, probe, frontend>>

(***************************************************************************)
(* The browser application.  A text typed into a field is a sequence of    *)
(* characters, so that trim and parseInt are computed as JavaScript        *)
(* computes them.                                                          *)
(***************************************************************************)
Whitespace == {" "}

DigitChars == {"0", "1", "2", "3", "4", "5", "6", "7", "8", "9"}

DigitValue(c) ==
  CASE c = "0" -> 0 [] c = "1" -> 1 [] c = "2" -> 2 [] c = "3" -> 3
    [] c = "4" -> 4 [] c = "5" -> 5 [] c = "6" -> 6 [] c = "7" -> 7
    [] c = "8" -> 8 [] c = "9" -> 9

RECURSIVE trimStart(_)
trimStart(s) ==
  IF s # <<>> /\ Head(s) \in Whitespace THEN trimStart(Tail(s)) ELSE s

RECURSIVE trimEnd(_)
trimEnd(s) ==
  IF s # <<>> /\ s[Len(s)] \in Whitespace
  THEN trimEnd(SubSeq(s, 1, Len(s) - 1))
  ELSE s

\* String.prototype.trim
trim(s) == trimEnd(trimStart(s))

\* parseInt yields a number or NaN; every comparison with NaN is false.
NaN == [nan |-> TRUE, value |-> 0]

Number(n) == [nan |-> FALSE, value |-> n]

RECURSIVE parseDigits(_, _)
parseDigits(s, acc) ==
  IF s # <<>> /\ Head(s) \in DigitChars
  THEN parseDigits(Tail(s), 10 * acc + DigitValue(Head(s)))
  ELSE acc

\* parseInt(string): leading white space, an optional sign, then the longest
\* run of decimal digits; NaN when there is no digit at that place.
parseInt(s) ==
  LET t == trimStart(s)
      negative == t # <<>> /\ Head(t) = "-"
      u == IF t # <<>> /\ Head(t) \in {"-", "+"} THEN Tail(t) ELSE t
  IN IF u = <<>> \/ Head(u) \notin DigitChars
     THEN NaN
     ELSE Number(IF negative THEN 0 - parseDigits(u, 0) ELSE parseDigits(u, 0))

NumberLt(a, b) == ~a.nan /\ ~b.nan /\ a.value < b.value

NumberGt(a, b) == ~a.nan /\ ~b.nan /\ a.value > b.value

\* --- App -----------------------------------------------------------------
Steps == <<"welcome", "consent", "survey", "test", "finish">>

\* The identifiers the backend hands out on /register.
ParticipantIds == {"participant_1", "participant_2"}

AppInit == [mode |-> "main", step |-> "welcome", participantId |-> ""]

\* --- ConsentForm ---------------------------------------------------------
EmptyForm == [name |-> <<>>, age |-> <<>>, gender |-> "", consent |-> FALSE]

NoBody == [name |-> <<>>, age |-> NaN, gender |-> "", consent |-> FALSE]

\* request is "none" until /register has been posted, then "pending"; body is
\* what was posted.
ConsentInit ==
  [formData |-> EmptyForm, error |-> "", loading |-> FALSE,
   request |-> "none", body |-> NoBody]

\* --- OrthodonticSurvey ---------------------------------------------------
surveyQuestions == 8

\* lastInput is the participant's last gesture on the screen: a press on a
\* disabled button changes nothing else.
SurveyInit ==
  [responses |-> [i \in 1..surveyQuestions |-> 0], error |-> "",
   loading |-> FALSE, request |-> "none", lastInput |-> "none"]

\* --- PronunciationTest ---------------------------------------------------
NumWords == 3

\* The head of the word list, in ASCII.
AllWords ==
  <<"estetik", "teshis", "malokluzyon", "braket", "capraSiklik",
    "temporomandibular">>

turkishWords == SubSeq(AllWords, 1, NumWords)

\* recorder is the MediaRecorder in mediaRecorderRef while it records, with
\* the currentIndex and results of the render whose startRecording made it
\* (its onstop handler calls that render's uploadAudio); chunks is
\* audioChunksRef.current, one chunk per recording, named by the recording.
\* stopped are the recorders whose stop() has been called and whose
\* dataavailable and stop events are still queued; uploads are the posts in
\* flight.  lateUploads counts the uploads of the last word that are still
\* in flight from a test screen that has been unmounted, timers the pending
\* setTimeout(onComplete) callbacks: both outlive the screen.
NoRecorder == [id |-> 0, index |-> 0, results |-> <<>>]

TestInit ==
  [started |-> FALSE, currentIndex |-> 0, isRecording |-> FALSE,
   isUploading |-> FALSE, results |-> <<>>, error |-> "",
   recorder |-> NoRecorder, chunks |-> <<>>, stopped |-> <<>>,
   uploads |-> {}, lateUploads |-> 0, timers |-> 0]

\* A text that is null, told apart from every text.
NullText == <<NULL>>

\* --- PhonemePreview ------------------------------------------------------
\* closureError is the error of the render whose handler is running; the
\* response data are written as the word they are about.
PreviewInit ==
  [word |-> <<>>, phonemeData |-> NullText, analysis |-> NullText,
   loading |-> FALSE, error |-> "", showAnalysis |-> FALSE,
   request |-> "none", closureError |-> ""]

\* --- ReviewPage ----------------------------------------------------------
\* The recordings of the participant on display, by file name; a recording's
\* audio_path is written as its file name.
Recordings == {"estetik.wav", "braket.wav"}

\* A score, evaluator or notes that the backend reports as null.
NoScore == -1

Unlabeled ==
  [labeled |-> FALSE, score |-> NoScore, evaluator |-> NullText,
   notes |-> NullText]

\* What the backend holds when the page is opened: one recording without a
\* label, one labeled with score 0 and no notes.
StoredLabels ==
  [f \in Recordings |->
     IF f = "braket.wav"
     THEN [labeled |-> TRUE, score |-> 0, evaluator |-> <<"A">>,
           notes |-> NullText]
     ELSE Unlabeled]

\* The label store of the server, per participant: only the first
\* participant has a label.
BackendInit ==
  [p \in ParticipantIds |->
     IF p = "participant_1" THEN StoredLabels
     ELSE [f \in Recordings |-> Unlabeled]]

FormScores == {90}

Evaluators == {<<>>, <<" ">>, <<"B">>}

Notes == {<<>>, <<"n">>}

Qualities == {"good", "poor"}

\* How many labels the evaluator saves.
MaxSaves == 1

AudioIds == {"audio1", "audio2"}

NoLabelBody ==
  [participant_id |-> NULL, filename |-> NULL, score |-> 75,
   evaluator |-> <<>>, notes |-> <<>>, pronunciation_quality |-> "good",
   specific_issues |-> <<>>]

\* mounting: the loads of useEffect have not been answered yet.  save is the
\* position of the saveLabel call in flight, body what it posted, saves the
\* number of calls so far.  players is the state of the Audio
\* elements, backend the label store of the server.  details are the
\* participants whose loadParticipantDetails request (from "View") is in
\* flight, viewed the participant of the latest "View" (none once that
\* request has failed), owner the participant in whose recordings table the
\* dialog was opened, qualityFor the recording for which the quality on
\* the form was chosen (none for the default).
ReviewInit ==
  [participants |-> [loaded |-> FALSE, labeled |-> 0],
   stats |-> [loaded |-> FALSE, labeled |-> 0],
   selectedParticipant |->
     [present |-> FALSE, participant_id |-> NULL,
      recordings |-> StoredLabels],
   details |-> {}, viewed |-> NULL, owner |-> NULL,
   loading |-> FALSE,
   labelDialogOpen |-> FALSE, currentRecording |-> NULL,
   audioPlaying |-> NULL, audioElement |-> NULL,
   score |-> 75, notes |-> <<>>, quality |-> "good", evaluator |-> <<>>,
   specificIssues |-> <<>>, qualityFor |-> NULL,
   mounting |-> TRUE, save |-> "idle", saves |-> 0, body |-> NoLabelBody,
   players |-> [a \in AudioIds |-> [state |-> "free", path |-> NULL]],
   backend |-> BackendInit]

FrontendIdle ==
  /\ app = AppInit
  /\ consent = ConsentInit
  /\ survey = SurveyInit
  /\ test = TestInit
  /\ preview = PreviewInit
  /\ review = ReviewInit

NoProbe == [fn |-> "none"]

Init ==
  /\ req = [r \in Requests |-> IdleReq]
  /\ whisper = [cached |-> FALSE, downloads |-> 0]
  /\ probe = NoProbe
  /\ FrontendIdle

Next ==
  \E r \in Requests :
    \/ Receive(r)
    \/ Transcribe(r)
    \/ LoadModel(r)
    \/ DownloadModel(r)
    \/ Recognize(r)
    \/ RecognizerDown(r)
    \/ ExtractFeatures(r)
    \/ SegmentStep(r)
    \/ ScoreStep(r)
    \/ AggregateStep(r)
    \/ Finish(r)
    \/ Return(r)

Spec == Init /\ [][Next]_vars

(***************************************************************************)
(* The pure functions of the engine applied to bounded sets of inputs.     *)
(* probe holds one input and, once the function has been applied, its      *)
(* result.                                                                 *)
(***************************************************************************)
EngineIdle ==
  /\ req = [r \in Requests |-> IdleReq]
  /\ whisper = [cached |-> FALSE, downloads |-> 0]
  /\ FrontendIdle

\* --- Grade ---------------------------------------------------------------
GradeSteps == 200

InitGrade ==
  /\ EngineIdle
  /\ \E k \in 0..GradeSteps :
       probe = [fn |-> "grade", overall |-> RNorm(k, GradeSteps),
                grade |-> "", done |-> FALSE]

ApplyGrade ==
  /\ probe.fn = "grade"
  /\ ~probe.done
  /\ probe' = [probe EXCEPT !.grade = Grade(probe.overall), !.done = TRUE]
  /\ UNCHANGED <<req, whisper, frontend>>

SpecGrade == InitGrade /\ [][ApplyGrade]_vars

\* --- Vowel score ---------------------------------------------------------
F1Grid == {0, 2, 3, 5, 8, 9, 16}
F2Grid == {0, 4, 8, 12, 20, 24, 40}

InitVowel ==
  /\ EngineIdle
  /\ \E phoneme \in Vowels, near \in F1Grid \X F2Grid, far \in F1Grid \X F2Grid :
       probe = [fn |-> "vowel", phoneme |-> phoneme, near |-> near,
                far |-> far, near_score |-> Absent, far_score |-> Absent,
                done |-> FALSE]

ApplyVowel ==
  /\ probe.fn = "vowel"
  /\ ~probe.done
  /\ probe' = [probe EXCEPT
                 !.near_score = FormantScore(probe.phoneme, probe.near[1],
                                             probe.near[2]),
                 !.far_score = FormantScore(probe.phoneme, probe.far[1],
                                            probe.far[2]),
                 !.done = TRUE]
  /\ UNCHANGED <<req, whisper, frontend>>

SpecVowel == InitVowel /\ [][ApplyVowel]_vars

\* --- Segmenter -----------------------------------------------------------
MaxTicks == 16

PhonemeSequences ==
  UNION {{SubSeq(Phonemize(w), 1, n) : n \in 1..Len(Phonemize(w))} :
           w \in Words}

InitSegment ==
  /\ EngineIdle
  /\ \E phoneme_sequence \in PhonemeSequences, total_duration \in 1..MaxTicks :
       probe = [fn |-> "segment", phoneme_sequence |-> phoneme_sequence,
                total_duration |-> total_duration, segments |-> <<>>,
                done |-> FALSE]

ApplySegment ==
  /\ probe.fn = "segment"
  /\ ~probe.done
  /\ probe' = [probe EXCEPT
                 !.segments = segment(probe.phoneme_sequence,
                                      probe.total_duration),
                 !.done = TRUE]
  /\ UNCHANGED <<req, whisper, frontend>>

SpecSegment == InitSegment /\ [][ApplySegment]_vars

\* --- Aggregator ----------------------------------------------------------
MaxScores == 3
ScoreGrid == {Zero, LowDefault, ConsonantLow, NeutralDefault, One}
ConfidenceGrid == RecognizerConfidences \cup {<<1, 2>>, NoConfidence}

ScoreLists == UNION {[1..n -> ScoreGrid] : n \in 0..MaxScores}

InitAggregate ==
  /\ EngineIdle
  /\ \E segment_scores \in ScoreLists, confidence \in ConfidenceGrid,
        waveform \in {w \in Waveforms : w.kind \in {"silence", "clear"}} :
       probe = [fn |-> "aggregate", segment_scores |-> segment_scores,
                recognition_confidence |-> confidence,
                features |-> extract(waveform),
                overall |-> Absent, grade |-> "", done |-> FALSE]

ApplyAggregate ==
  /\ probe.fn = "aggregate"
  /\ ~probe.done
  /\ LET result == aggregate(probe.segment_scores,
                             probe.recognition_confidence, probe.features)
     IN probe' = [probe EXCEPT !.overall = result.overall,
                               !.grade = result.grade, !.done = TRUE]
  /\ UNCHANGED <<req, whisper, frontend>>

SpecAggregate == InitAggregate /\ [][ApplyAggregate]_vars

\* --- Symbol-keyed score map ----------------------------------------------
\* A phoneme sequence, segmented, with a score for every position.
PositionScores == {LowDefault, One}

InitScoreMap ==
  /\ EngineIdle
  /\ \E phoneme_sequence \in PhonemeSequences :
       \E scores \in [DOMAIN phoneme_sequence -> PositionScores] :
         probe = [fn |-> "ScoreMap", phoneme_sequence |-> phoneme_sequence,
                  scores |-> scores, segment_scores |-> <<>>,
                  done |-> FALSE]

ApplyScoreMap ==
  /\ probe.fn = "ScoreMap"
  /\ ~probe.done
  /\ probe' = [probe EXCEPT
                 !.segment_scores =
                   ScoreMap(segment(probe.phoneme_sequence, MaxTicks),
                            probe.scores),
                 !.done = TRUE]
  /\ UNCHANGED <<req, whisper, frontend>>

SpecScoreMap == InitScoreMap /\ [][ApplyScoreMap]_vars

\* --- Overall acoustic score ----------------------------------------------
\* A non-empty score list, and the same list with the score at one position
\* lowered.
InitOverall ==
  /\ EngineIdle
  /\ \E phoneme_scores \in ScoreLists \ {<<>>} :
       \E position \in DOMAIN phoneme_scores :
         \E lower \in {v \in ScoreGrid : RLe(v, phoneme_scores[position])} :
           probe = [fn |-> "overall", phoneme_scores |-> phoneme_scores,
                    lowered_scores |->
                      [phoneme_scores EXCEPT ![position] = lower],
                    overall |-> Absent, lowered_overall |-> Absent,
                    done |-> FALSE]

ApplyOverall ==
  /\ probe.fn = "overall"
  /\ ~probe.done
  /\ probe' = [probe EXCEPT
                 !.overall = calculate_overall_score(probe.phoneme_scores),
                 !.lowered_overall =
                   calculate_overall_score(probe.lowered_scores),
                 !.done = TRUE]
  /\ UNCHANGED <<req, whisper, frontend>>

SpecOverall == InitOverall /\ [][ApplyOverall]_vars

(***************************************************************************)
(* One request at a time, run to completion: the pipeline is synchronous,  *)
(* so a request that has been received keeps taking its next step.         *)
(***************************************************************************)
NextOne ==
  \/ Receive("r1")
  \/ Transcribe("r1")
  \/ LoadModel("r1")
  \/ DownloadModel("r1")
  \/ Recognize("r1")
  \/ RecognizerDown("r1")
  \/ ExtractFeatures("r1")
  \/ SegmentStep("r1")
  \/ ScoreStep("r1")
  \/ AggregateStep("r1")
  \/ Finish("r1")
  \/ Return("r1")

SpecOne == Init /\ [][NextOne]_vars /\ WF_vars(NextOne)

(***************************************************************************)
(* The participant application: App and the screens it mounts.  A screen   *)
(* that is unmounted loses its state; a request or a timer it started      *)
(* stays in flight, and what the callback does to the unmounted screen's   *)
(* state has no effect, while what it does through a callback of App       *)
(* (onComplete) has.  The model keeps at most one /register and one        *)
(* /survey request in flight.                                              *)
(***************************************************************************)
Mounted(s) == app.mode = "main" /\ app.step = s

\* State of the screens after App has changed step or mode.
ConsentUnmounted ==
  [ConsentInit EXCEPT !.request = consent.request, !.body = consent.body]

SurveyUnmounted == [SurveyInit EXCEPT !.request = survey.request]

LastIndex == Len(turkishWords) - 1

\* The posts of the last word that a test screen leaves behind when it is
\* unmounted: those in flight and those of the recorders already stopped.
LastWordPosts ==
  Cardinality({u \in test.uploads : u.index = LastIndex})
    + Cardinality({i \in DOMAIN test.stopped :
                     test.stopped[i].index = LastIndex})

TestUnmounted ==
  [TestInit EXCEPT
     !.timers = test.timers,
     !.lateUploads = test.lateUploads + LastWordPosts]

\* --- App -----------------------------------------------------------------
setStep(s) ==
  /\ app' = [app EXCEPT !.step = s]
  /\ consent' = ConsentUnmounted
  /\ survey' = SurveyUnmounted
  /\ test' = TestUnmounted

handleWelcomeNext ==
  /\ Mounted("welcome")
  /\ setStep("consent")
  /\ UNCHANGED <<req, whisper, probe, preview, review>>

\* The mode buttons, rendered while step is welcome.
setMode(m) ==
  /\ app.step = "welcome"
  /\ app' = [app EXCEPT !.mode = m]
  /\ preview' = PreviewInit
  /\ UNCHANGED <<req, whisper, probe, consent, survey, test, review>>

\* "Ana Sayfaya Don", rendered while mode is phoneme.
BackToMain ==
  /\ app.mode = "phoneme"
  /\ app' = [app EXCEPT !.mode = "main"]
  /\ preview' = PreviewInit
  /\ UNCHANGED <<req, whisper, probe, consent, survey, test, review>>

handleRestart ==
  /\ Mounted("finish")
  /\ app' = [app EXCEPT !.step = "welcome", !.participantId = ""]
  /\ consent' = ConsentUnmounted
  /\ survey' = SurveyUnmounted
  /\ test' = TestUnmounted
  /\ UNCHANGED <<req, whisper, probe, preview, review>>

\* --- ConsentForm ---------------------------------------------------------
Names == {<<>>, <<" ">>, <<"A", "d", "a">>}

\* What an <input type="number"> can hold: the empty string or a valid
\* floating-point number.
AgeTexts ==
  {<<>>, <<"0">>, <<"2", "5">>, <<"1", "2", "0">>, <<"1", "2", "1">>,
   <<".", "5">>}

Genders == {"Kadin", "Erkek", "Diger"}

setFormData ==
  /\ Mounted("consent")
  /\ \/ \E v \in Names : consent' = [consent EXCEPT !.formData.name = v]
     \/ \E v \in AgeTexts : consent' = [consent EXCEPT !.formData.age = v]
     \/ \E v \in Genders : consent' = [consent EXCEPT !.formData.gender = v]
     \/ \E v \in BOOLEAN : consent' = [consent EXCEPT !.formData.consent = v]
  /\ UNCHANGED <<req, whisper, probe, app, survey, test, preview, review>>

AgeRejected(age) ==
  \/ age = <<>>
  \/ NumberLt(parseInt(age), Number(1))
  \/ NumberGt(parseInt(age), Number(120))

\* ConsentForm.handleSubmit up to the await of fetch.  The submit button is
\* disabled while loading.
ConsentForm_handleSubmit ==
  /\ Mounted("consent")
  /\ ~consent.loading
  /\ consent.request = "none"
  /\ LET f == consent.formData
     IN consent' =
          IF trim(f.name) = <<>>
          THEN [consent EXCEPT !.error = "Lutfen adinizi giriniz"]
          ELSE IF AgeRejected(f.age)
          THEN [consent EXCEPT !.error = "Lutfen gecerli bir yas giriniz"]
          ELSE IF f.gender = ""
          THEN [consent EXCEPT !.error = "Lutfen cinsiyetinizi seciniz"]
          ELSE IF ~f.consent
          THEN [consent EXCEPT !.error = "Devam etmek icin onay vermelisiniz"]
          ELSE [consent EXCEPT
                  !.error = "", !.loading = TRUE, !.request = "pending",
                  !.body = [name |-> f.name, age |-> parseInt(f.age),
                            gender |-> f.gender, consent |-> f.consent]]
  /\ UNCHANGED <<req, whisper, probe, app, survey, test, preview, review>>

handleConsentComplete(id) ==
  /\ app' = [app EXCEPT !.participantId = id, !.step = "survey"]
  /\ consent' = ConsentInit
  /\ survey' = SurveyUnmounted
  /\ test' = TestUnmounted

\* ConsentForm.handleSubmit from the await on: the response of /register.
RegisterOk ==
  /\ consent.request = "pending"
  /\ \E id \in ParticipantIds : handleConsentComplete(id)
  /\ UNCHANGED <<req, whisper, probe, preview, review>>

RegisterFailed ==
  /\ consent.request = "pending"
  /\ consent' =
       IF consent.loading
       THEN [consent EXCEPT
               !.error = "Bir hata olustu. Lutfen tekrar deneyin.",
               !.loading = FALSE, !.request = "none", !.body = NoBody]
       ELSE [consent EXCEPT !.request = "none", !.body = NoBody]
  /\ UNCHANGED <<req, whisper, probe, app, survey, test, preview, review>>

\* --- OrthodonticSurvey ---------------------------------------------------
\* The Likert options offered to the participant (two of the five).
LikertOptions == {1, 5}

answeredCount == Cardinality({i \in 1..surveyQuestions : survey.responses[i] # 0})

handleResponseChange ==
  /\ Mounted("survey")
  /\ \E index \in 1..surveyQuestions, value \in LikertOptions :
       survey' = [survey EXCEPT !.responses[index] = value,
                                !.lastInput = "answer"]
  /\ UNCHANGED <<req, whisper, probe, app, consent, test, preview, review>>

SubmitAlwaysEnabled == FALSE

SubmitDisabled == survey.loading \/ answeredCount < surveyQuestions

\* OrthodonticSurvey.handleSubmit up to the await of fetch.
OrthodonticSurvey_handleSubmit ==
  IF \E i \in 1..surveyQuestions : survey.responses[i] = 0
  THEN [survey EXCEPT !.error = "Lutfen tum sorulari cevaplayiniz",
                      !.lastInput = "submit"]
  ELSE [survey EXCEPT !.loading = TRUE, !.error = "",
                      !.request = "pending", !.lastInput = "submit"]

\* A press on "Anketi Tamamla": handleSubmit runs unless the button is
\* disabled.
PressSubmit ==
  /\ Mounted("survey")
  /\ survey.request = "none"
  /\ survey' = IF SubmitDisabled
               THEN [survey EXCEPT !.lastInput = "submit"]
               ELSE OrthodonticSurvey_handleSubmit
  /\ UNCHANGED <<req, whisper, probe, app, consent, test, preview, review>>

handleSurveyComplete ==
  /\ app' = [app EXCEPT !.step = "test"]
  /\ consent' = ConsentUnmounted
  /\ survey' = SurveyInit
  /\ test' = TestUnmounted

\* OrthodonticSurvey.handleSubmit from the await on: the response of /survey.
SurveyOk ==
  /\ survey.request = "pending"
  /\ handleSurveyComplete
  /\ UNCHANGED <<req, whisper, probe, preview, review>>

SurveyFailed ==
  /\ survey.request = "pending"
  /\ survey' =
       IF survey.loading
       THEN [survey EXCEPT
               !.error = "Bir hata olustu. Lutfen tekrar deneyin.",
               !.loading = FALSE, !.request = "none"]
       ELSE [survey EXCEPT !.request = "none"]
  /\ UNCHANGED <<req, whisper, probe, app, consent, test, preview, review>>

\* --- PronunciationTest ---------------------------------------------------
\* How many completions (uploads of the last word still in flight and
\* pending timers) the model lets outlive the test screen.
MaxLate == 2

currentWord == turkishWords[test.currentIndex + 1]

\* The recordings that can be told apart at one time.
RecordingIds == 1..(MaxLate + 1)

IdsInUse ==
  {test.recorder.id}
    \cup {test.chunks[i] : i \in DOMAIN test.chunks}
    \cup {test.stopped[i].id : i \in DOMAIN test.stopped}
    \cup UNION {{u.blob[i] : i \in DOMAIN u.blob} : u \in test.uploads}

InFlight ==
  Len(test.stopped) + Cardinality(test.uploads)
    + test.lateUploads + test.timers

setStarted ==
  /\ Mounted("test")
  /\ ~test.started
  /\ test' = [test EXCEPT !.started = TRUE]
  /\ UNCHANGED <<req, whisper, probe, app, consent, survey, preview, review>>

\* "Kaydet", rendered while !isRecording && !isUploading: getUserMedia is
\* granted or refused.
startRecording ==
  /\ Mounted("test")
  /\ test.started
  /\ ~test.isRecording
  /\ ~test.isUploading
  /\ InFlight < MaxLate
  /\ RecordingIds \ IdsInUse # {}
  /\ \/ test' = [test EXCEPT
                   !.isRecording = TRUE, !.error = "",
                   !.recorder =
                     [id |-> CHOOSE id \in RecordingIds \ IdsInUse :
                               \A other \in RecordingIds \ IdsInUse :
                                 id <= other,
                      index |-> test.currentIndex,
                      results |-> test.results],
                   !.chunks = <<>>]
     \/ test' = [test EXCEPT
                   !.error = "Mikrofon erisimi reddedildi. Lutfen izin verin."]
  /\ UNCHANGED <<req, whisper, probe, app, consent, survey, preview, review>>

\* "Dur": stop() queues the recorder's dataavailable and stop events.
stopRecording ==
  /\ Mounted("test")
  /\ test.isRecording
  /\ test' = [test EXCEPT !.isRecording = FALSE,
                          !.stopped = Append(test.stopped, test.recorder),
                          !.recorder = NoRecorder]
  /\ UNCHANGED <<req, whisper, probe, app, consent, survey, preview, review>>

\* The queued events of the recorder stopped first: ondataavailable pushes
\* the chunk to audioChunksRef.current, onstop makes the blob of what the
\* buffer holds and calls uploadAudio, which is posted.
onstop ==
  /\ Mounted("test")
  /\ test.stopped # <<>>
  /\ LET stoppedRecorder == Head(test.stopped)
         audioChunks == Append(test.chunks, stoppedRecorder.id)
     IN test' = [test EXCEPT
                   !.stopped = Tail(test.stopped),
                   !.chunks = audioChunks,
                   !.isUploading = TRUE,
                   !.uploads = test.uploads
                      \cup {[id |-> stoppedRecorder.id,
                             index |-> stoppedRecorder.index,
                             results |-> stoppedRecorder.results,
                             blob |-> audioChunks]}]
  /\ UNCHANGED <<req, whisper, probe, app, consent, survey, preview, review>>

\* uploadAudio from the await on, response OK: results, currentIndex and
\* currentWord are those of the render that made the recorder.
uploadAudio(upload) ==
  [test EXCEPT
     !.results = Append(upload.results, turkishWords[upload.index + 1]),
     !.currentIndex = IF upload.index < Len(turkishWords) - 1
                      THEN upload.index + 1
                      ELSE test.currentIndex,
     !.timers = IF upload.index < Len(turkishWords) - 1
                THEN test.timers
                ELSE test.timers + 1,
     !.isUploading = FALSE,
     !.uploads = test.uploads \ {upload}]

UploadOk(upload) ==
  /\ Mounted("test")
  /\ upload \in test.uploads
  /\ test' = uploadAudio(upload)
  /\ UNCHANGED <<req, whisper, probe, app, consent, survey, preview, review>>

UploadFailedSkipping(upload) ==
  /\ Mounted("test")
  /\ upload \in test.uploads
  /\ test' = [test EXCEPT
                !.error = "Yukleme hatasi. Lutfen tekrar deneyin.",
                !.currentIndex = IF upload.index < Len(turkishWords) - 1
                                 THEN upload.index + 1
                                 ELSE test.currentIndex,
                !.isUploading = FALSE,
                !.uploads = test.uploads \ {upload}]
  /\ UNCHANGED <<req, whisper, probe, app, consent, survey, preview, review>>

UploadFailed(upload) ==
  /\ Mounted("test")
  /\ upload \in test.uploads
  /\ test' = [test EXCEPT !.error = "Yukleme hatasi. Lutfen tekrar deneyin.",
                          !.isUploading = FALSE,
                          !.uploads = test.uploads \ {upload}]
  /\ UNCHANGED <<req, whisper, probe, app, consent, survey, preview, review>>

\* The response to an upload whose screen is gone: only the timer matters.
LateUploadOk ==
  /\ test.lateUploads > 0
  /\ test' = [test EXCEPT !.lateUploads = @ - 1, !.timers = @ + 1]
  /\ UNCHANGED <<req, whisper, probe, app, consent, survey, preview, review>>

LateUploadFailed ==
  /\ test.lateUploads > 0
  /\ test' = [test EXCEPT !.lateUploads = @ - 1]
  /\ UNCHANGED <<req, whisper, probe, app, consent, survey, preview, review>>

\* setTimeout(() => onComplete(), 1000) fires: App.handleTestComplete.
handleTestComplete ==
  /\ test.timers > 0
  /\ app' = [app EXCEPT !.step = "finish"]
  /\ consent' = ConsentUnmounted
  /\ survey' = SurveyUnmounted
  /\ test' = [TestUnmounted EXCEPT !.timers = test.timers - 1]
  /\ UNCHANGED <<req, whisper, probe, preview, review>>

\* --- PhonemePreview ------------------------------------------------------
PreviewWords == {<<>>, <<" ">>, <<"e", "l">>}

BackendMessage == "Bir hata olustu. Backend calisiyor mu kontrol edin."

EspeakMessage ==
  "eSpeak-NG yuklu degil. Fonem servisi kullanilamiyor. Lutfen eSpeak-NG kurun."

\* What the backend, or the network, answers to a request.
Outcomes == {"ok", "503", "500", "unreachable"}

\* The text field is disabled while loading.
setWord ==
  /\ app.mode = "phoneme"
  /\ ~preview.loading
  /\ \E w \in PreviewWords : preview' = [preview EXCEPT !.word = w]
  /\ UNCHANGED <<req, whisper, probe, app, consent, survey, test, review>>

\* handleGeneratePhonemes up to the await of fetch: from the button, which
\* is disabled while loading or while the word is blank, or from the Enter
\* key of the text field.
handleGeneratePhonemes ==
  /\ app.mode = "phoneme"
  /\ ~preview.loading
  /\ preview' =
       IF trim(preview.word) = <<>>
       THEN [preview EXCEPT !.error = "Lutfen bir kelime giriniz"]
       ELSE [preview EXCEPT
               !.loading = TRUE, !.error = "", !.phonemeData = NullText,
               !.analysis = NullText, !.request = "generate",
               !.closureError = preview.error]
  /\ UNCHANGED <<req, whisper, probe, app, consent, survey, test, review>>

\* handleAnalyze up to the await of fetch: from its button only.
handleAnalyze ==
  /\ app.mode = "phoneme"
  /\ ~preview.loading
  /\ trim(preview.word) # <<>>
  /\ preview' = [preview EXCEPT
                   !.loading = TRUE, !.error = "", !.showAnalysis = TRUE,
                   !.request = "analyze", !.closureError = preview.error]
  /\ UNCHANGED <<req, whisper, probe, app, consent, survey, test, review>>

\* Both handlers from the await on, had setLoading(false) been the last
\* statement of the try block instead of a finally block: the early return
\* on 503 leaves loading set.
PreviewResponseEarlyReturn(outcome) ==
  /\ app.mode = "phoneme"
  /\ preview.request # "none"
  /\ LET generate == preview.request = "generate"
         settled == [preview EXCEPT !.loading = FALSE, !.request = "none",
                                    !.closureError = ""]
     IN preview' =
          CASE outcome = "ok" ->
                 IF generate
                 THEN [settled EXCEPT !.phonemeData = preview.word]
                 ELSE [settled EXCEPT !.analysis = preview.word]
            [] outcome = "503" ->
                 [preview EXCEPT !.error = EspeakMessage, !.request = "none",
                                 !.closureError = ""]
            [] OTHER ->
                 IF preview.closureError = ""
                 THEN [settled EXCEPT
                         !.error = IF generate
                                   THEN BackendMessage
                                   ELSE "Analiz yapilamadi. Lutfen tekrar deneyin."]
                 ELSE settled
  /\ UNCHANGED <<req, whisper, probe, app, consent, survey, test, review>>

\* Both handlers from the await on.  The catch block reads error from the
\* render that started the handler.
PreviewResponse(outcome) ==
  /\ app.mode = "phoneme"
  /\ preview.request # "none"
  /\ LET generate == preview.request = "generate"
         settled == [preview EXCEPT !.loading = FALSE, !.request = "none",
                                    !.closureError = ""]
     IN preview' =
          CASE outcome = "ok" ->
                 IF generate
                 THEN [settled EXCEPT !.phonemeData = preview.word]
                 ELSE [settled EXCEPT !.analysis = preview.word]
            [] outcome = "503" -> [settled EXCEPT !.error = EspeakMessage]
            [] OTHER ->
                 IF preview.closureError = ""
                 THEN [settled EXCEPT
                         !.error = IF generate
                                   THEN BackendMessage
                                   ELSE "Analiz yapilamadi. Lutfen tekrar deneyin."]
                 ELSE settled
  /\ UNCHANGED <<req, whisper, probe, app, consent, survey, test, review>>

(***************************************************************************)
(* The participant application as a whole.                                 *)
(***************************************************************************)
InitApp ==
  /\ EngineIdle
  /\ probe = NoProbe

NextApp ==
  \/ handleWelcomeNext
  \/ \E m \in {"main", "phoneme"} : setMode(m)
  \/ BackToMain
  \/ handleRestart
  \/ setFormData
  \/ ConsentForm_handleSubmit
  \/ RegisterOk
  \/ RegisterFailed
  \/ handleResponseChange
  \/ PressSubmit
  \/ SurveyOk
  \/ SurveyFailed
  \/ setStarted
  \/ startRecording
  \/ stopRecording
  \/ onstop
  \/ \E upload \in test.uploads : UploadOk(upload)
  \/ \E upload \in test.uploads : UploadFailed(upload)
  \/ LateUploadOk
  \/ LateUploadFailed
  \/ handleTestComplete
  \/ setWord
  \/ handleGeneratePhonemes
  \/ handleAnalyze
  \/ \E outcome \in Outcomes : PreviewResponse(outcome)

SpecApp == InitApp /\ [][NextApp]_vars

(***************************************************************************)
(* The screens that show a loading flag (ConsentForm, OrthodonticSurvey,   *)
(* PhonemePreview), up to the start of the test.  A request that has been  *)
(* sent settles: the browser's fetch resolves or rejects.                  *)
(***************************************************************************)
RegisterSettles == RegisterOk \/ RegisterFailed

SurveySettles == SurveyOk \/ SurveyFailed

PreviewSettles == \E outcome \in Outcomes : PreviewResponse(outcome)

NextLoading ==
  \/ handleWelcomeNext
  \/ \E m \in {"main", "phoneme"} : setMode(m)
  \/ BackToMain
  \/ setFormData
  \/ ConsentForm_handleSubmit
  \/ RegisterOk
  \/ RegisterFailed
  \/ handleResponseChange
  \/ PressSubmit
  \/ SurveyOk
  \/ SurveyFailed
  \/ setWord
  \/ handleGeneratePhonemes
  \/ handleAnalyze
  \/ \E outcome \in Outcomes : PreviewResponse(outcome)

SpecLoading ==
  /\ InitApp
  /\ [][NextLoading]_vars
  /\ WF_vars(RegisterSettles)
  /\ WF_vars(SurveySettles)
  /\ WF_vars(PreviewSettles)

(***************************************************************************)
(* The review page (ReviewPage) of one evaluator, with the label store of  *)
(* the backend it talks to.  The model shows one participant and keeps at  *)
(* most one saveLabel call in flight.                                      *)
(***************************************************************************)
\* --- audio ---------------------------------------------------------------
\* An Audio element is free (never started, or paused), playing, or ending:
\* playback has reached the end and the task that fires "ended" is queued.
playAudio(audioPath) ==
  /\ review.selectedParticipant.present
  /\ IF review.labelDialogOpen
     THEN audioPath = review.currentRecording
     ELSE audioPath \in Recordings
  /\ LET paused ==
           IF review.audioElement # NULL
                /\ review.players[review.audioElement].state = "playing"
           THEN [review.players EXCEPT ![review.audioElement].state = "free"]
           ELSE review.players
     IN IF review.audioPlaying = audioPath
        THEN review' = [review EXCEPT !.players = paused,
                                      !.audioPlaying = NULL,
                                      !.audioElement = NULL]
        ELSE \E audio \in AudioIds :
               /\ paused[audio].state = "free"
               /\ review' =
                    [review EXCEPT
                       !.players = [paused EXCEPT
                                      ![audio] = [state |-> "playing",
                                                  path |-> audioPath]],
                       !.audioPlaying = audioPath,
                       !.audioElement = audio]
  /\ UNCHANGED <<req, whisper, probe, app, consent, survey, test, preview>>

\* Playback reaches the end of the recording.
ReachEnd(audio) ==
  /\ review.players[audio].state = "playing"
  /\ review' = [review EXCEPT !.players[audio].state = "ending"]
  /\ UNCHANGED <<req, whisper, probe, app, consent, survey, test, preview>>

\* audio.onended
onended(audio) ==
  /\ review.players[audio].state = "ending"
  /\ review' = [review EXCEPT !.players[audio].state = "free",
                              !.audioPlaying = NULL,
                              !.audioElement = NULL]
  /\ UNCHANGED <<req, whisper, probe, app, consent, survey, test, preview>>

\* --- loading -------------------------------------------------------------
labeledCount(labels) ==
  Cardinality({pf \in ParticipantIds \X Recordings :
                 labels[pf[1]][pf[2]].labeled})

\* useEffect on mount: loadParticipants and loadStats, each answered or not.
useEffect ==
  /\ review.mounting
  /\ \E listOk \in BOOLEAN, statsOk \in BOOLEAN :
       review' = [review EXCEPT
                    !.mounting = FALSE,
                    !.participants =
                       IF listOk
                       THEN [loaded |-> TRUE,
                             labeled |-> labeledCount(review.backend)]
                       ELSE @,
                    !.stats =
                       IF statsOk
                       THEN [loaded |-> TRUE,
                             labeled |-> labeledCount(review.backend)]
                       ELSE @]
  /\ UNCHANGED <<req, whisper, probe, app, consent, survey, test, preview>>

\* "View" on a row of the participants table: loadParticipantDetails up to
\* the await of the request.  The model keeps one request per participant
\* in flight.
loadParticipantDetails(participantId) ==
  /\ review.participants.loaded
  /\ ~review.labelDialogOpen
  /\ review.save = "idle"
  /\ participantId \notin review.details
  /\ review' = [review EXCEPT !.details = @ \cup {participantId},
                              !.viewed = participantId,
                              !.loading = TRUE]
  /\ UNCHANGED <<req, whisper, probe, app, consent, survey, test, preview>>

\* The request for a participant's details is answered, or fails.
DetailsResponse(participantId) ==
  /\ participantId \in review.details
  /\ \/ review' = [review EXCEPT
                     !.details = @ \ {participantId},
                     !.selectedParticipant =
                        [present |-> TRUE, participant_id |-> participantId,
                         recordings |-> review.backend[participantId]],
                     !.loading = FALSE]
     \/ review' = [review EXCEPT
                     !.details = @ \ {participantId},
                     !.viewed = IF @ = participantId THEN NULL ELSE @,
                     !.loading = FALSE]
  /\ UNCHANGED <<req, whisper, probe, app, consent, survey, test, preview>>

\* "Close" on the participant details.
CloseDetails ==
  /\ review.selectedParticipant.present
  /\ ~review.labelDialogOpen
  /\ review' = [review EXCEPT !.selectedParticipant.present = FALSE]
  /\ UNCHANGED <<req, whisper, probe, app, consent, survey, test, preview>>

\* --- label dialog --------------------------------------------------------
OrEmpty(text) == IF text = NullText THEN <<>> ELSE text

openLabelDialogTruthy(recording) ==
  LET r == review.selectedParticipant.recordings[recording]
  IN IF r.labeled /\ r.score # NoScore /\ r.score # 0
     THEN [review EXCEPT !.currentRecording = recording,
                         !.owner = review.selectedParticipant.participant_id,
                         !.score = r.score,
                         !.notes = OrEmpty(r.notes),
                         !.evaluator = OrEmpty(r.evaluator),
                         !.labelDialogOpen = TRUE]
     ELSE [review EXCEPT !.currentRecording = recording,
                         !.owner = review.selectedParticipant.participant_id,
                         !.score = 75, !.notes = <<>>, !.evaluator = <<>>,
                         !.labelDialogOpen = TRUE]

openLabelDialog(recording) ==
  LET r == review.selectedParticipant.recordings[recording]
  IN IF r.labeled /\ r.score # NoScore
     THEN [review EXCEPT !.currentRecording = recording,
                         !.owner = review.selectedParticipant.participant_id,
                         !.score = r.score,
                         !.notes = OrEmpty(r.notes),
                         !.evaluator = OrEmpty(r.evaluator),
                         !.labelDialogOpen = TRUE]
     ELSE [review EXCEPT !.currentRecording = recording,
                         !.owner = review.selectedParticipant.participant_id,
                         !.score = 75, !.notes = <<>>, !.evaluator = <<>>,
                         !.labelDialogOpen = TRUE]

\* "Label" / "Edit" on a row of the recordings table.
OpenDialog ==
  /\ review.selectedParticipant.present
  /\ ~review.labelDialogOpen
  /\ \E recording \in Recordings : review' = openLabelDialog(recording)
  /\ UNCHANGED <<req, whisper, probe, app, consent, survey, test, preview>>

\* The fields of the dialog, shown while currentRecording is set.
EditLabel ==
  /\ review.labelDialogOpen
  /\ review.currentRecording # NULL
  /\ \/ \E v \in FormScores : review' = [review EXCEPT !.score = v]
     \/ \E v \in Evaluators : review' = [review EXCEPT !.evaluator = v]
     \/ \E v \in Notes : review' = [review EXCEPT !.notes = v]
     \/ \E v \in Qualities :
          review' = [review EXCEPT
                       !.quality = v,
                       !.qualityFor = IF v = "good" THEN NULL
                                      ELSE review.currentRecording]
  /\ UNCHANGED <<req, whisper, probe, app, consent, survey, test, preview>>

\* "Cancel", or a click outside the dialog.
CancelDialog ==
  /\ review.labelDialogOpen
  /\ review' = [review EXCEPT !.labelDialogOpen = FALSE]
  /\ UNCHANGED <<req, whisper, probe, app, consent, survey, test, preview>>

\* --- saveLabel -----------------------------------------------------------
\* "Save Label", disabled while the evaluator name is blank: saveLabel up to
\* the await of the post.
saveLabel ==
  /\ review.labelDialogOpen
  /\ trim(review.evaluator) # <<>>
  /\ review.save = "idle"
  /\ review.saves < MaxSaves
  /\ review' =
       IF review.currentRecording = NULL \/ ~review.selectedParticipant.present
       THEN review
       ELSE [review EXCEPT
               !.save = "post",
               !.saves = @ + 1,
               !.body = [participant_id |->
                           review.selectedParticipant.participant_id,
                         filename |-> review.currentRecording,
                         score |-> review.score,
                         evaluator |-> review.evaluator,
                         notes |-> review.notes,
                         pronunciation_quality |-> review.quality,
                         specific_issues |-> review.specificIssues]]
  /\ UNCHANGED <<req, whisper, probe, app, consent, survey, test, preview>>

\* The post is answered: the backend has stored the label, and
\* loadParticipantDetails starts.
PostOk ==
  [review EXCEPT
     !.backend[review.body.participant_id][review.body.filename] =
        [labeled |-> TRUE, score |-> review.body.score,
         evaluator |-> review.body.evaluator, notes |-> review.body.notes],
     !.save = "details",
     !.loading = TRUE]

SavePosted ==
  /\ review.save = "post"
  /\ review' = PostOk
  /\ UNCHANGED <<req, whisper, probe, app, consent, survey, test, preview>>

\* The post fails: alert('Failed to save label').
SaveFailed ==
  /\ review.save = "post"
  /\ review' = [review EXCEPT !.save = "idle", !.body = NoLabelBody]
  /\ UNCHANGED <<req, whisper, probe, app, consent, survey, test, preview>>

\* await loadParticipantDetails(...): answered or not, then loadParticipants
\* starts.
SaveReloadDetails ==
  /\ review.save = "details"
  /\ \/ review' = [review EXCEPT
                     !.selectedParticipant =
                        [present |-> TRUE,
                         participant_id |-> review.body.participant_id,
                         recordings |->
                           review.backend[review.body.participant_id]],
                     !.save = "participants"]
     \/ review' = [review EXCEPT !.save = "participants"]
  /\ UNCHANGED <<req, whisper, probe, app, consent, survey, test, preview>>

\* await loadParticipants(): answered or not, then loadStats starts.
SaveReloadParticipants ==
  /\ review.save = "participants"
  /\ \/ review' = [review EXCEPT
                     !.participants =
                        [loaded |-> TRUE,
                         labeled |-> labeledCount(review.backend)],
                     !.loading = FALSE,
                     !.save = "stats"]
     \/ review' = [review EXCEPT !.loading = FALSE, !.save = "stats"]
  /\ UNCHANGED <<req, whisper, probe, app, consent, survey, test, preview>>

\* await loadStats(): answered or not, then the dialog is closed.
SaveReloadStats ==
  /\ review.save = "stats"
  /\ \E ok \in BOOLEAN :
       review' = [review EXCEPT
                    !.stats = IF ok
                              THEN [loaded |-> TRUE,
                                    labeled |-> labeledCount(review.backend)]
                              ELSE @,
                    !.labelDialogOpen = FALSE,
                    !.currentRecording = NULL,
                    !.save = "idle",
                    !.body = NoLabelBody]
  /\ UNCHANGED <<req, whisper, probe, app, consent, survey, test, preview>>

InitReview ==
  /\ EngineIdle
  /\ probe = NoProbe

\* Labelling the recordings of one participant: the label dialog and
\* saveLabel.
NextReview ==
  \/ useEffect
  \/ loadParticipantDetails("participant_1")
  \/ DetailsResponse("participant_1")
  \/ CloseDetails
  \/ OpenDialog
  \/ EditLabel
  \/ CancelDialog
  \/ saveLabel
  \/ SavePosted
  \/ SaveFailed
  \/ SaveReloadDetails
  \/ SaveReloadParticipants
  \/ SaveReloadStats

SpecReview == InitReview /\ [][NextReview]_vars

\* Going from one participant to another: "View" on any row, the label
\* dialog with the stored values, and saveLabel.
NextDetails ==
  \/ useEffect
  \/ \E participantId \in ParticipantIds :
       loadParticipantDetails(participantId)
  \/ \E participantId \in ParticipantIds : DetailsResponse(participantId)
  \/ CloseDetails
  \/ OpenDialog
  \/ CancelDialog
  \/ saveLabel
  \/ SavePosted
  \/ SaveFailed
  \/ SaveReloadDetails
  \/ SaveReloadParticipants
  \/ SaveReloadStats

SpecDetails == InitReview /\ [][NextDetails]_vars

\* Listening: the play buttons of the recordings table and of the dialog.
NextAudio ==
  \/ useEffect
  \/ loadParticipantDetails("participant_1")
  \/ DetailsResponse("participant_1")
  \/ CloseDetails
  \/ OpenDialog
  \/ CancelDialog
  \/ \E audioPath \in Recordings : playAudio(audioPath)
  \/ \E audio \in AudioIds : ReachEnd(audio)
  \/ \E audio \in AudioIds : onended(audio)

SpecAudio == InitReview /\ [][NextAudio]_vars

(***************************************************************************)
(* Properties.                                                             *)
(***************************************************************************)

\* C1: every overall in [0,1] gets exactly one grade, A from 0.90, B from
\* 0.80, C from 0.70, D from 0.60 and F below, each boundary value going to
\* the higher grade.
C1_GradeTable ==
  (probe.fn = "grade" /\ probe.done) =>
    LET n == probe.overall[1]
        d == probe.overall[2]
    IN /\ probe.grade \in Grades
       /\ (probe.grade = "A") <=> (10 * n >= 9 * d)
       /\ (probe.grade = "B") <=> (10 * n >= 8 * d /\ 10 * n < 9 * d)
       /\ (probe.grade = "C") <=> (10 * n >= 7 * d /\ 10 * n < 8 * d)
       /\ (probe.grade = "D") <=> (10 * n >= 6 * d /\ 10 * n < 7 * d)
       /\ (probe.grade = "F") <=> (10 * n < 6 * d)

C1_Witness ==
  /\ probe.fn = "grade"
  /\ probe.done
  /\ probe.overall = <<4, 5>>
  /\ probe.grade = "B"

\* C2: whatever the segment scores in [0,1] and whether the recognizer
\* confidence is a value in [0,1] or absent, the aggregated overall lies in
\* [0,1].
C2_OverallInUnit ==
  (probe.fn = "aggregate" /\ probe.done) =>
    /\ 0 <= probe.overall[1]
    /\ probe.overall[1] <= probe.overall[2]

C2_Witness ==
  /\ probe.fn = "aggregate"
  /\ probe.done
  /\ probe.segment_scores = <<One, One, One>>
  /\ probe.recognition_confidence = One
  /\ probe.overall = One

\* C3: a request whose recognizer was unavailable is not failed for it: it
\* runs on to Done (unless the audio is malformed) with a null confidence,
\* the tag "acoustic_only" and the acoustic score alone as overall.
C3_Safe ==
  req["r1"].recognizer = "unavailable" =>
    /\ req["r1"].error # "RecognizerUnavailable"
    /\ req["r1"].recognition_confidence = NoConfidence
    /\ req["r1"].recognized_text = NULL
    /\ req["r1"].analysis_method = "acoustic_only"
    /\ req["r1"].stage = "Done" =>
         req["r1"].overall =
           IF req["r1"].scores = <<>>
           THEN GlobalQuality(req["r1"].features)
           ELSE RAdd(RMul(<<7, 10>>, mean(req["r1"].scores)),
                     RMul(<<3, 10>>, RMinimum(req["r1"].scores)))

C3_Down ==
  /\ req["r1"].recognizer = "unavailable"
  /\ req["r1"].waveform.kind # "malformed"

C3_DoneAcoustic ==
  /\ req["r1"].stage = "Done"
  /\ req["r1"].analysis_method = "acoustic_only"

C3_AcousticOnly == []C3_Safe /\ (C3_Down ~> C3_DoneAcoustic)

C3_Witness ==
  /\ req["r1"].stage = "Done"
  /\ req["r1"].recognizer = "unavailable"
  /\ req["r1"].word = "pencere"
  /\ req["r1"].waveform.kind = "clear"
  /\ req["r1"].overall # Absent

C5_EqualContiguousSegments ==
  (probe.fn = "segment" /\ probe.done) =>
    LET n == Len(probe.phoneme_sequence)
        d == probe.total_duration
        segs == probe.segments
    IN /\ Len(segs) = n
       /\ \A i \in 1..n :
            /\ segs[i].phoneme = probe.phoneme_sequence[i]
            /\ LET width == RSub(segs[i].end, segs[i].start)
               IN width[1] * n = d * width[2]
       /\ segs[1].start = Zero
       /\ \A i \in 1..(n - 1) : segs[i + 1].start = segs[i].end
       /\ segs[n].end[1] = d * segs[n].end[2]

C5_Witness ==
  /\ probe.fn = "segment"
  /\ probe.done
  /\ probe.phoneme_sequence = Phonemize("pencere")
  /\ probe.total_duration = 10
  /\ Len(probe.segments) = 7
  /\ probe.segments[7].end = <<10, 1>>

\* C6: whenever the phonemizer succeeded, the scores in phoneme order have
\* one entry per symbol of phonemes_target, repeated symbols included.
C6_OneScorePerPosition ==
  \A r \in Requests :
    (req[r].phonemizer = "ok"
       /\ req[r].stage \in {"Scored", "Aggregated", "Done"}) =>
      /\ Len(req[r].scores) = Len(req[r].phonemes_target)
      /\ Len(req[r].phonemes_target) = Len(Phonemize(req[r].word))

C6_Witness ==
  \E r \in Requests :
    /\ req[r].stage = "Done"
    /\ req[r].word = "pencere"
    /\ Len(req[r].scores) = 7

C8_VowelMonotone ==
  (probe.fn = "vowel" /\ probe.done) =>
    LET e1 == VowelFormants[probe.phoneme][1]
        e2 == VowelFormants[probe.phoneme][2]
        \* 1 - (|F1-e1|/e1 + |F2-e2|/e2)/2 over the denominator 2*e1*e2
        raw(m) == 2 * e1 * e2 - (Abs(m[1] - e1) * e2 + Abs(m[2] - e2) * e1)
        clamp(x) == IF x < 0 THEN 0 ELSE x
    IN /\ probe.near_score[1] * 2 * e1 * e2
            = clamp(raw(probe.near)) * probe.near_score[2]
       /\ probe.far_score[1] * 2 * e1 * e2
            = clamp(raw(probe.far)) * probe.far_score[2]
       /\ 0 <= probe.near_score[1] /\ probe.near_score[1] <= probe.near_score[2]
       /\ 0 <= probe.far_score[1] /\ probe.far_score[1] <= probe.far_score[2]
       /\ (/\ Abs(probe.far[1] - e1) >= Abs(probe.near[1] - e1)
           /\ Abs(probe.far[2] - e2) >= Abs(probe.near[2] - e2)) =>
            probe.far_score[1] * probe.near_score[2]
              <= probe.near_score[1] * probe.far_score[2]

C8_Witness ==
  /\ probe.fn = "vowel"
  /\ probe.done
  /\ probe.phoneme = "e"
  /\ probe.near = <<5, 24>>
  /\ probe.far = <<3, 40>>
  /\ probe.near_score = <<9, 10>>
  /\ probe.far_score = <<3, 10>>

AnalyzeAlone(word, waveform, recognition_confidence) ==
  LET features == extract(waveform)
      segments == segment(Phonemize(word), features.duration)
  IN aggregate(scoreAll(segments, features), recognition_confidence, features)

\* C10: whatever the interleaving, a request's result is the one it produces
\* alone, and the recognizer model is initialised once, before any request
\* uses it, never by a request.
C10_IsolatedWarmSingleton ==
  /\ \A r \in Requests :
       req[r].stage = "Done" =>
         LET alone == AnalyzeAlone(req[r].word, req[r].waveform,
                                   req[r].recognition_confidence)
         IN req[r].overall = alone.overall /\ req[r].grade = alone.grade
  /\ whisper.downloads <= 1
  /\ \A r \in Requests : req[r].model # "downloading"

\* C11: the participant flow visits its screens only in the order welcome,
\* consent, survey, test, finish: a step changes only to its immediate
\* successor, finish changes only to welcome (restart), and no screen is
\* skipped or entered again without a restart.
FlowSuccessor ==
  {<<Steps[i], Steps[i + 1]>> : i \in 1..(Len(Steps) - 1)}
    \cup {<<Steps[Len(Steps)], Steps[1]>>}

C11_FlowOrder ==
  [][app'.step # app.step => <<app.step, app'.step>> \in FlowSuccessor]_vars

\* C16: phoneme-preview mode is entered only from the welcome screen, and
\* in every reachable state mode = phoneme implies step = welcome.
C16_PhonemeModeOnlyAtWelcome ==
  app.mode = "phoneme" => app.step = "welcome"

\* C12: ConsentForm posts /register and calls onComplete only for a submit
\* in which the name is not blank, the age parses to an integer in 1..120,
\* a gender is selected and the consent box is checked; a submit that fails
\* one of these checks sets an error message, sends no request and leaves
\* step and participantId unchanged.
AgeParsesInRange(age) ==
  ~parseInt(age).nan /\ parseInt(age).value \in 1..120

ValidForm(f) ==
  /\ trim(f.name) # <<>>
  /\ AgeParsesInRange(f.age)
  /\ f.gender # ""
  /\ f.consent

C12_ConsentGate ==
  [][/\ ConsentForm_handleSubmit =>
          \/ ValidForm(consent.formData)
          \/ /\ consent'.error # ""
             /\ consent'.request = "none"
             /\ app' = app
     /\ RegisterOk =>
          /\ ~consent.body.age.nan
          /\ consent.body.age.value \in 1..120
          /\ trim(consent.body.name) # <<>>
          /\ consent.body.gender # ""
          /\ consent.body.consent]_vars

\* C13: in the pronunciation test the word shown and the word uploaded are
\* turkishWords[currentIndex]; currentIndex starts at 0, stays within
\* 0..length-1, and while the test screen is up it changes only by +1, only
\* on the successful upload of the word at the current index, and only
\* below the last index, so that the results list the words in list order.
C13_InRange ==
  /\ test.currentIndex \in 0..(Len(turkishWords) - 1)
  /\ \A upload \in test.uploads : upload.index = test.currentIndex
  /\ ~test.started => test.currentIndex = 0

C13_Advance ==
  (app.step = "test" /\ app'.step = "test"
     /\ test'.currentIndex # test.currentIndex) =>
    /\ test'.currentIndex = test.currentIndex + 1
    /\ test.currentIndex < Len(turkishWords) - 1
    /\ \E upload \in test.uploads :
         /\ UploadOk(upload)
         /\ upload.index = test.currentIndex

C13_WordsInOrder == []C13_InRange /\ [][C13_Advance]_vars

\* C14 (as stated): OrthodonticSurvey posts /survey and calls onComplete only
\* when all 8 responses are non-zero and the request returned OK; while a
\* response is still 0 a submit is rejected with an error message, no
\* request is sent and the step stays at survey.
Unanswered == \E i \in 1..surveyQuestions : survey.responses[i] = 0

C14_OnlyComplete ==
  /\ (survey.request = "none" /\ survey'.request = "pending") =>
       (Mounted("survey") /\ ~Unanswered)
  /\ (app.step # "test" /\ app'.step = "test") =>
       survey.request = "pending"

C14_Rejected ==
  (Mounted("survey") /\ Unanswered /\ survey.lastInput = "submit") =>
    (survey.error # "" /\ ~survey.loading)

C14_RejectedWithError == []C14_Rejected /\ [][C14_OnlyComplete]_vars

\* C14 (amended): the request is posted and onComplete called only when all
\* 8 responses are non-zero and the request returned OK; while a response is
\* still 0 the submit button is disabled, so a press on it runs no handler:
\* no error message is set, no request is sent and the step stays at survey.
C14_Disabled ==
  (Mounted("survey") /\ Unanswered) =>
    /\ SubmitDisabled
    /\ survey.error = ""
    /\ ~survey.loading

C14_DisabledUntilAnswered == []C14_Disabled /\ [][C14_OnlyComplete]_vars

C14_Witness ==
  /\ Mounted("survey")
  /\ answeredCount = surveyQuestions - 1
  /\ survey.lastInput = "submit"
  /\ survey.error = ""

\* C15: in PhonemePreview every phoneme-generation request that fails
\* because the backend cannot be reached ends with the backend error
\* message displayed, also when it was started while the error message of
\* an earlier request was shown.
C15_BackendErrorShown ==
  [][(preview.request = "generate" /\ PreviewResponse("unreachable")) =>
       preview'.error = BackendMessage]_vars

\* C17: on the review page at most one recording is playing at any time,
\* the recording that is playing is the one audioPlaying names, and
\* audioPlaying is non-null exactly when audioElement is non-null.
Playing == {a \in AudioIds : review.players[a].state = "playing"}

C17_AtMostOnePlaying ==
  /\ Cardinality(Playing) <= 1
  /\ \A a \in Playing :
       review.audioElement = a /\ review.audioPlaying = review.players[a].path
  /\ (review.audioPlaying # NULL) <=> (review.audioElement # NULL)

\* C18: saveLabel starts only with a non-blank evaluator name and posts the
\* label of the recording open in the dialog; after a successful post the
\* participant details, the participant list and the statistics are
\* reloaded, and only then the dialog is closed and currentRecording
\* cleared; if the post fails the dialog stays open, currentRecording is
\* kept and nothing is reloaded.
C18_Triggered ==
  (review.save = "idle" /\ review'.save = "post") =>
    /\ trim(review.evaluator) # <<>>
    /\ review.labelDialogOpen
    /\ review'.body.filename = review.currentRecording

C18_ClosedAfterReload ==
  (review.currentRecording # NULL /\ review'.currentRecording = NULL) =>
    /\ ~review'.labelDialogOpen
    /\ review'.backend[review.body.participant_id][review.body.filename]
         .labeled
    /\ review'.selectedParticipant =
         [present |-> TRUE, participant_id |-> review.body.participant_id,
          recordings |-> review'.backend[review.body.participant_id]]
    /\ review'.participants =
         [loaded |-> TRUE, labeled |-> labeledCount(review'.backend)]
    /\ review'.stats =
         [loaded |-> TRUE, labeled |-> labeledCount(review'.backend)]

C18_FailureKeepsDialog ==
  (review.save = "post" /\ review'.save = "idle") =>
    /\ review'.labelDialogOpen = review.labelDialogOpen
    /\ review'.currentRecording = review.currentRecording
    /\ review'.selectedParticipant = review.selectedParticipant
    /\ review'.participants = review.participants
    /\ review'.stats = review.stats
    /\ review'.backend = review.backend

C18_SaveThenReload ==
  [][C18_Triggered /\ C18_ClosedAfterReload /\ C18_FailureKeepsDialog]_vars

\* C19: openLabelDialog on a recording that is labeled and has a non-null
\* score loads its stored score, notes and evaluator into the form (a null
\* text as the empty text); on any other recording it sets score 75, empty
\* notes and an empty evaluator; in both cases the dialog is opened with
\* currentRecording set to that recording.
C19_Opening ==
  (~review.labelDialogOpen /\ review'.labelDialogOpen) =>
    /\ review'.currentRecording \in Recordings
    /\ LET stored ==
            review.selectedParticipant.recordings[review'.currentRecording]
       IN IF stored.labeled /\ stored.score # NoScore
          THEN /\ review'.score = stored.score
               /\ review'.notes =
                    (IF stored.notes = NullText THEN <<>> ELSE stored.notes)
               /\ review'.evaluator =
                    (IF stored.evaluator = NullText
                     THEN <<>> ELSE stored.evaluator)
          ELSE /\ review'.score = 75
               /\ review'.notes = <<>>
               /\ review'.evaluator = <<>>

C19_DialogLoadsLabel == [][C19_Opening]_vars

C19_Witness ==
  /\ review.labelDialogOpen
  /\ review.currentRecording = "braket.wav"
  /\ review.selectedParticipant.recordings["braket.wav"].score = 0
  /\ review.score = 0
  /\ review.evaluator = <<"A">>
  /\ review.notes = <<>>

\* C20: a request moves through Received, Transcribed, Recognized,
\* FeaturesExtracted, Segmented, Scored, Aggregated, Done one stage at a
\* time in this order, so that a request at Done has been in each stage
\* exactly once; it leaves the line only by failing, and the outcome of an
\* external call (phonemizer, recognizer), once it has failed, is kept for
\* the rest of the request: the call is not made again, and every call is
\* decided in the same step that moves the request to its next stage.
StageOrder ==
  <<"Received", "Transcribed", "Recognized", "FeaturesExtracted",
    "Segmented", "Scored", "Aggregated", "Done">>

StageSteps ==
  {<<StageOrder[i], StageOrder[i + 1]>> : i \in 1..(Len(StageOrder) - 1)}

C20_Step(r) ==
  /\ req'[r].stage # req[r].stage =>
       \/ <<req[r].stage, req'[r].stage>> \in StageSteps
       \/ req[r].stage = "Idle" /\ req'[r].stage = "Received"
       \/ /\ req'[r].stage = "Failed"
          /\ req[r].stage \notin {"Idle", "Done"}
          /\ req'[r].error # ""
       \/ req[r].stage \in {"Done", "Failed"} /\ req'[r] = IdleReq
  /\ req[r].phonemizer = "unavailable" =>
       \/ req'[r] = IdleReq
       \/ req'[r] = req[r]
  /\ req[r].recognizer = "unavailable" =>
       \/ req'[r] = IdleReq
       \/ req'[r] = req[r]
       \/ /\ req'[r].recognizer = "unavailable"
          /\ req'[r].recognition_confidence = NoConfidence
          /\ req'[r].analysis_method = "acoustic_only"
          /\ req'[r].stage # req[r].stage
  /\ (\/ req'[r].phonemizer # req[r].phonemizer
      \/ req'[r].recognizer # req[r].recognizer) =>
       req'[r].stage # req[r].stage

C21_OverallBetweenMinAndMean ==
  (probe.fn = "overall" /\ probe.done) =>
    /\ RLe(RMinimum(probe.phoneme_scores), probe.overall)
    /\ RLe(probe.overall, mean(probe.phoneme_scores))
    /\ InUnit(probe.overall)
    /\ RLe(probe.lowered_overall, probe.overall)

C21_Witness ==
  /\ probe.fn = "overall"
  /\ probe.done
  /\ Len(probe.phoneme_scores) = MaxScores
  /\ probe.lowered_scores # probe.phoneme_scores
  /\ RLt(probe.lowered_overall, probe.overall)
  /\ RLt(RMinimum(probe.phoneme_scores), probe.overall)
  /\ RLt(probe.overall, mean(probe.phoneme_scores))

\* C22: the symbol-keyed segment_scores map holds exactly one entry per
\* distinct symbol of the phoneme sequence, and the value of a symbol is the
\* score of its last occurrence; when the sequence repeats a symbol the map
\* has fewer entries than the sequence has positions.
C22_Repeats(sequence) ==
  \E i, j \in DOMAIN sequence : i < j /\ sequence[i] = sequence[j]

C22_MapKeepsLastOccurrence ==
  (probe.fn = "ScoreMap" /\ probe.done) =>
    LET sequence == probe.phoneme_sequence
        symbols == {sequence[i] : i \in DOMAIN sequence}
    IN /\ DOMAIN probe.segment_scores = symbols
       /\ \A i \in DOMAIN sequence :
            (\A j \in DOMAIN sequence : j > i => sequence[j] # sequence[i])
              => probe.segment_scores[sequence[i]] = probe.scores[i]
       /\ C22_Repeats(sequence) =>
            Cardinality(DOMAIN probe.segment_scores) < Len(sequence)

C22_Witness ==
  /\ probe.fn = "ScoreMap"
  /\ probe.done
  /\ probe.phoneme_sequence = Phonemize("pencere")
  /\ probe.scores[2] = One
  /\ probe.scores[7] = LowDefault
  /\ probe.segment_scores["e"] = LowDefault
  /\ Cardinality(DOMAIN probe.segment_scores) = 5

\* C23: segment on an empty phoneme sequence returns an empty list, and the
\* analysis then completes without error, with empty segment_scores and an
\* overall that is the default derived only from the recognition confidence
\* and the global acoustic quality: no mean or minimum of the empty score
\* list enters it.
C23_NoPhonemes ==
  /\ req["r1"].phonemizer = "ok"
  /\ req["r1"].phonemes_target = <<>>

C23_Safe ==
  C23_NoPhonemes =>
    /\ req["r1"].stage \in {"Segmented", "Scored", "Aggregated", "Done"} =>
         /\ req["r1"].segments = <<>>
         /\ segment(req["r1"].phonemes_target,
                    req["r1"].features.duration) = <<>>
    /\ req["r1"].stage \in {"Scored", "Aggregated", "Done"} =>
         req["r1"].scores = <<>>
    /\ req["r1"].stage \in {"Aggregated", "Done"} =>
         /\ req["r1"].error = ""
         /\ req["r1"].overall =
              IF req["r1"].recognition_confidence = NoConfidence
              THEN GlobalQuality(req["r1"].features)
              ELSE RAdd(RMul(<<4, 10>>, req["r1"].recognition_confidence),
                        RMul(<<6, 10>>, GlobalQuality(req["r1"].features)))
    /\ req["r1"].stage = "Done" => req["r1"].segment_scores = <<>>

C23_Segmenting ==
  /\ C23_NoPhonemes
  /\ req["r1"].stage = "FeaturesExtracted"

C23_DoneEmpty ==
  /\ C23_NoPhonemes
  /\ req["r1"].stage = "Done"
  /\ req["r1"].error = ""
  /\ req["r1"].segment_scores = <<>>

C23_EmptySequenceDefault == []C23_Safe /\ (C23_Segmenting ~> C23_DoneEmpty)

C23_Witness ==
  /\ C23_DoneEmpty
  /\ req["r1"].waveform.kind = "clear"
  /\ req["r1"].recognition_confidence = <<91, 100>>
  /\ req["r1"].overall = <<241, 250>>

\* C24: when the upload of a recording fails (the post is answered on the
\* test screen, but not with the OK response), the error message is shown,
\* currentIndex and results are left as they are, onComplete is neither
\* called nor scheduled, isUploading is false again, and the record button
\* of the same word is rendered again unless a recording is going on.
UploadErrorMessage == "Yukleme hatasi. Lutfen tekrar deneyin."

C24_Failure(upload) ==
  /\ Mounted("test")
  /\ upload \in test.uploads
  /\ app'.step = "test"
  /\ test'.uploads = test.uploads \ {upload}
  /\ ~UploadOk(upload)

C24_FailedUploadKeepsWord ==
  [][\A upload \in test.uploads :
       C24_Failure(upload) =>
         /\ test'.error = UploadErrorMessage
         /\ test'.currentIndex = test.currentIndex
         /\ test'.results = test.results
         /\ test'.timers = test.timers
         /\ test'.lateUploads = test.lateUploads
         /\ ~test'.isUploading
         /\ test'.started
         /\ test'.isRecording = test.isRecording]_vars

C24_Witness ==
  /\ Mounted("test")
  /\ test.error = UploadErrorMessage
  /\ test.currentIndex = 1
  /\ test.results = <<turkishWords[1]>>
  /\ test.uploads = {}
  /\ test.stopped = <<>>
  /\ ~test.isRecording
  /\ ~test.isUploading

\* C25: each upload carries exactly the audio chunks of one recording; the
\* record button is never rendered while a stopped recording has not yet
\* been uploaded, so that no recording starts (resetting the shared chunk
\* buffer) between stopRecording and the end of that recording's upload;
\* isRecording and isUploading are never both true.
RecordButtonRendered ==
  /\ Mounted("test")
  /\ test.started
  /\ ~test.isRecording
  /\ ~test.isUploading

C25_OneRecordingPerUpload ==
  /\ \A upload \in test.uploads : upload.blob = <<upload.id>>
  /\ RecordButtonRendered => (test.stopped = <<>> /\ test.uploads = {})
  /\ ~(test.isRecording /\ test.isUploading)

\* C26: onComplete is invoked at most once per pronunciation test, and only
\* after the successful upload of the last word: it is called from the test
\* screen whose results end with the last word, and at no other time; once
\* the last word has been uploaded successfully no further recording or
\* upload can be started before the test screen is left.
C26_LastWordUploaded ==
  /\ Mounted("test")
  /\ test.results # <<>>
  /\ test.results[Len(test.results)] = turkishWords[Len(turkishWords)]

C26_Invoked == handleTestComplete => C26_LastWordUploaded

C26_NoFurtherRecording ==
  C26_LastWordUploaded =>
    /\ ~RecordButtonRendered
    /\ ~test.isRecording
    /\ test.stopped = <<>>
    /\ test.uploads = {}

C26_CompleteOnce == []C26_NoFurtherRecording /\ [][C26_Invoked]_vars

\* C27: results holds exactly one entry per successful upload, in upload
\* order: every successful upload on the test screen appends its result to
\* the results there are, none is lost or duplicated, and as long as the
\* last word has not been uploaded results has currentIndex entries.
C27_Appended ==
  \A upload \in test.uploads :
    (UploadOk(upload) /\ app'.step = "test") =>
      /\ Len(test'.results) = Len(test.results) + 1
      /\ SubSeq(test'.results, 1, Len(test.results)) = test.results

C27_Counted ==
  (Mounted("test") /\ ~C26_LastWordUploaded) =>
    Len(test.results) = test.currentIndex

C27_OneResultPerUpload == []C27_Counted /\ [][C27_Appended]_vars

\* C28: a label is always posted under the participant that owns the
\* recording open in the dialog, and once every details request has been
\* answered selectedParticipant is the participant most recently asked for
\* with "View", whatever the order in which the answers of overlapping
\* requests arrive.
C28_PostedUnderOwner ==
  (review.save = "idle" /\ review'.save = "post") =>
    review'.body.participant_id = review.owner

C28_LatestViewed ==
  (review.details = {} /\ review.save = "idle" /\ review.viewed # NULL
     /\ review.selectedParticipant.present) =>
    review.selectedParticipant.participant_id = review.viewed

C28_LabelUnderOwner == []C28_LatestViewed /\ [][C28_PostedUnderOwner]_vars

\* C29: whenever the label dialog is opened for a recording, every field of
\* the label form holds that recording's stored value or the default of the
\* field (score 75, empty notes, empty evaluator, quality "good", no
\* specific issues), or what was entered for this same recording: nothing
\* entered for another recording is carried over, so that a saved label
\* holds no value chosen for another recording.
C29_FreshForm ==
  (~review.labelDialogOpen /\ review'.labelDialogOpen) =>
    LET stored ==
          review.selectedParticipant.recordings[review'.currentRecording]
    IN /\ review'.score \in {stored.score, 75}
       /\ review'.notes \in {stored.notes, <<>>}
       /\ review'.evaluator \in {stored.evaluator, <<>>}
       /\ \/ review'.quality = "good"
          \/ review.qualityFor = review'.currentRecording
       /\ review'.specificIssues = <<>>

C29_NoCarryOver == [][C29_FreshForm]_vars

(***************************************************************************)
(* C30: every request started by ConsentForm, OrthodonticSurvey or         *)
(* PhonemePreview returns that screen's loading flag to false on every     *)
(* outcome (success, a non-OK response including the early return on 503,  *)
(* a thrown network error), given that the request settles; and while      *)
(* loading is true no handler of the same screen starts a second request.  *)
(***************************************************************************)
\* Loading is set only while a request of the mounted screen is in flight,
\* and while it is set no handler that sends is enabled: the submit button
\* of ConsentForm and of OrthodonticSurvey, both buttons and the text field
\* of PhonemePreview are disabled.
C30_NoSecondRequest ==
  /\ consent.loading =>
       consent.request = "pending" /\ ~ENABLED ConsentForm_handleSubmit
  /\ survey.loading => survey.request = "pending" /\ SubmitDisabled
  /\ preview.loading =>
       /\ preview.request # "none"
       /\ ~ENABLED handleGeneratePhonemes
       /\ ~ENABLED handleAnalyze

\* Whatever the outcome, the step that settles a request leaves loading false.
C30_SettledClears ==
  /\ consent.request = "pending" /\ consent'.request = "none"
       => ~consent'.loading
  /\ survey.request = "pending" /\ survey'.request = "none"
       => ~survey'.loading
  /\ preview.request # "none" /\ preview'.request = "none"
       => ~preview'.loading

C30_LoadingReturns ==
  /\ []C30_NoSecondRequest
  /\ [][C30_SettledClears]_vars
  /\ consent.loading ~> ~consent.loading
  /\ survey.loading ~> ~survey.loading
  /\ preview.loading ~> ~preview.loading

\* The preview has answered 503 to a request and is no longer loading.
C30_Witness ==
  /\ app.mode = "phoneme"
  /\ preview.error = EspeakMessage
  /\ ~preview.loading
  /\ preview.request = "none"
  /\ trim(preview.word) # <<>>

====
